---------------------------- MODULE Spec2Model ----------------------------
(***************************************************************************)
(* A model of testenv/parser.py: the two binding parsers                   *)
(* (HTTPRedirectRequestParser, HTTPPostRequestParser), the validation      *)
(* pipeline of HTTPRequestDeserializer and the tree builder SAMLTree.      *)
(*                                                                         *)
(* Three specifications share the module:                                  *)
(*   Spec       the validation pipeline (deserialize on two instances)     *)
(*   SpecParse  the binding parsers, applied to bounded input mappings     *)
(*   SpecTree   SAMLTree, applied to bounded XML documents                 *)
(***************************************************************************)
EXTENDS Integers, Sequences, FiniteSets, TLC

VARIABLES
    validators,          \* HTTPRequestDeserializer._validators (class attribute)
    request,             \* self._request, per deserializer instance
    validation_errors,   \* self._validation_errors, per deserializer instance
    pc,                  \* where each instance's deserialize() call stands
    idx,                 \* position of the for-loop of _run_validators
    invoked,             \* history: validators invoked by the current run
    run_start,           \* history: self._validation_errors when the run began
    result,              \* what the last deserialize() call returned or raised
    runs,                \* number of deserialize() calls made so far
    binding,             \* which parser is applied: "Redirect" or "POST"
    source,              \* the parser's input mapping (querystring or form)
    parsed,              \* what parse() returned or raised
    document,            \* the element handed to SAMLTree(xml_doc)
    built                \* what SAMLTree(xml_doc) returned or raised

pvars == <<validators, request, validation_errors, pc, idx, invoked,
           run_start, result, runs>>
qvars == <<binding, source, parsed>>
tvars == <<document, built>>
vars == <<pvars, qvars, tvars>>

(***************************************************************************)
(* Bounds of the model.                                                    *)
(***************************************************************************)
MaxValidators == 3
MaxRuns == 2
MaxLen == 5
MaxAttrs == 1
MaxChildren == 2

Instances == {"d1", "d2"}

(***************************************************************************)
(* Validators.  A validator is known to the pipeline only through what     *)
(* validate(request) does: return, raise ValidationError(details) or raise *)
(* XMLFormatValidationError(details).  An error carries no message, one    *)
(* message or two; the k-th message of an error that carries n messages    *)
(* is written <<n, k>>.                                                    *)
(***************************************************************************)
DetailLists == {<<>>, << <<1, 1>> >>, << <<2, 1>>, <<2, 2>> >>}

ValidatorKinds ==
    {[raises |-> "none", details |-> <<>>]}
    \cup {[raises |-> r, details |-> d] :
            r \in {"ValidationError", "XMLFormatValidationError"},
            d \in DetailLists}

ValidatorLists == UNION {[1..n -> ValidatorKinds] : n \in 0..MaxValidators}

(***************************************************************************)
(* Results of the operations: a value, or the exception raised.            *)
(***************************************************************************)
Ok(v) == [ok |-> TRUE, val |-> v]
Raised(exc) == [ok |-> FALSE, exc |-> exc]

(***************************************************************************)
(* base64.b64decode(s), called without validate: binascii.a2b_base64 in    *)
(* its lenient mode.  A character outside the alphabet is skipped, a pad   *)
(* that completes a quad ends the input, and data left in an unfinished    *)
(* quad is an error.  Strings are sequences of characters; "!" stands for  *)
(* any character outside the base64 alphabet.                              *)
(***************************************************************************)
Chars == {"A", "w", "=", "!"}

Strings == UNION {[1..n -> Chars] : n \in 0..MaxLen}

\* the 6-bit value of a character of the alphabet, 64 for any other
table_a2b_base64(c) ==
    CASE c = "A" -> 0
      [] c = "w" -> 48
      [] OTHER -> 64

RECURSIVE a2b_base64(_, _, _, _, _, _)
a2b_base64(s, i, quad_pos, leftchar, pads, out) ==
    IF i > Len(s)
    THEN IF quad_pos # 0 THEN Raised("binascii.Error") ELSE Ok(out)
    ELSE IF s[i] = "="
    THEN IF quad_pos >= 2 /\ quad_pos + pads + 1 >= 4
         THEN Ok(out)
         ELSE a2b_base64(s, i + 1, quad_pos, leftchar,
                         IF quad_pos >= 2 THEN pads + 1 ELSE pads, out)
    ELSE LET this_ch == table_a2b_base64(s[i])
         IN  IF this_ch >= 64
             THEN a2b_base64(s, i + 1, quad_pos, leftchar, pads, out)
             ELSE CASE quad_pos = 0 ->
                         a2b_base64(s, i + 1, 1, this_ch, 0, out)
                    [] quad_pos = 1 ->
                         a2b_base64(s, i + 1, 2, this_ch % 16, 0,
                            Append(out, leftchar * 4 + this_ch \div 16))
                    [] quad_pos = 2 ->
                         a2b_base64(s, i + 1, 3, this_ch % 4, 0,
                            Append(out, leftchar * 16 + this_ch \div 4))
                    [] quad_pos = 3 ->
                         a2b_base64(s, i + 1, 0, 0, 0,
                            Append(out, leftchar * 64 + this_ch))

b64decode(s) == a2b_base64(s, 1, 0, 0, 0, <<>>)

(***************************************************************************)
(* zlib.decompress(data, -15): a raw DEFLATE stream.  Bits are read from   *)
(* each byte least significant first, Huffman codes most significant bit   *)
(* first.  Stored blocks and the fixed Huffman code are decoded; a stream  *)
(* that needs a dynamic Huffman table or a back-reference into earlier     *)
(* output is outside the strings of the model and is reported as           *)
(* "unmodelled" (InflateModelled states that no input of the model gets    *)
(* there).  Bytes after the final block are ignored.                       *)
(***************************************************************************)
Pow2(n) == CASE n = 0 -> 1 [] n = 1 -> 2 [] n = 2 -> 4 [] n = 3 -> 8
             [] n = 4 -> 16 [] n = 5 -> 32 [] n = 6 -> 64 [] n = 7 -> 128
             [] n = 8 -> 256

Bit(data, n) == (data[n \div 8 + 1] \div Pow2(n % 8)) % 2

RECURSIVE HuffmanCode(_, _, _)
HuffmanCode(data, pos, n) ==
    IF n = 0 THEN 0
    ELSE 2 * HuffmanCode(data, pos, n - 1) + Bit(data, pos + n - 1)

\* the symbol of the fixed code at bit pos and its length, or too few bits
FixedSymbol(data, pos) ==
    LET left == 8 * Len(data) - pos
        c7 == HuffmanCode(data, pos, 7)
        c8 == HuffmanCode(data, pos, 8)
        c9 == HuffmanCode(data, pos, 9)
    IN  IF left < 7 THEN Raised("zlib.error")
        ELSE IF c7 <= 23 THEN Ok([sym |-> 256 + c7, len |-> 7])
        ELSE IF left < 8 THEN Raised("zlib.error")
        ELSE IF c8 >= 48 /\ c8 <= 191 THEN Ok([sym |-> c8 - 48, len |-> 8])
        ELSE IF c8 >= 192 /\ c8 <= 199 THEN Ok([sym |-> 280 + c8 - 192, len |-> 8])
        ELSE IF left < 9 THEN Raised("zlib.error")
        ELSE Ok([sym |-> 144 + c9 - 400, len |-> 9])

RECURSIVE InflateBlocks(_, _, _)
RECURSIVE InflateFixed(_, _, _, _)
InflateFixed(data, pos, bfinal, out) ==
    LET s == FixedSymbol(data, pos)
    IN  IF ~s.ok THEN s
        ELSE IF s.val.sym < 256
        THEN InflateFixed(data, pos + s.val.len, bfinal, Append(out, s.val.sym))
        ELSE IF s.val.sym = 256
        THEN IF bfinal = 1 THEN Ok(out)
             ELSE InflateBlocks(data, pos + s.val.len, out)
        ELSE IF out = <<>> THEN Raised("zlib.error")
        ELSE Raised("unmodelled")

InflateStored(data, pos, bfinal, out) ==
    LET at == (pos + 7) \div 8
        len == data[at + 1] + 256 * data[at + 2]
        nlen == data[at + 3] + 256 * data[at + 4]
    IN  IF at + 4 > Len(data) THEN Raised("zlib.error")
        ELSE IF len + nlen # 65535 THEN Raised("zlib.error")
        ELSE IF at + 4 + len > Len(data) THEN Raised("zlib.error")
        ELSE LET out2 == out \o SubSeq(data, at + 5, at + 4 + len)
             IN  IF bfinal = 1 THEN Ok(out2)
                 ELSE InflateBlocks(data, 8 * (at + 4 + len), out2)

InflateBlocks(data, pos, out) ==
    IF pos + 3 > 8 * Len(data) THEN Raised("zlib.error")
    ELSE LET bfinal == Bit(data, pos)
             btype == Bit(data, pos + 1) + 2 * Bit(data, pos + 2)
         IN  CASE btype = 0 -> InflateStored(data, pos + 3, bfinal, out)
               [] btype = 1 -> InflateFixed(data, pos + 3, bfinal, out)
               [] btype = 2 -> Raised("unmodelled")
               [] btype = 3 -> Raised("zlib.error")

decompress(data) == InflateBlocks(data, 0, <<>>)

(***************************************************************************)
(* bytes.decode(): strict UTF-8; a text is its sequence of code points.    *)
(***************************************************************************)
IsCont(data, i, lo, hi) == i <= Len(data) /\ data[i] >= lo /\ data[i] <= hi

RECURSIVE Utf8(_, _, _)
Utf8(data, i, out) ==
    IF i > Len(data) THEN Ok(out)
    ELSE LET b == data[i]
             lo2 == CASE b = 224 -> 160 [] b = 240 -> 144 [] OTHER -> 128
             hi2 == CASE b = 237 -> 159 [] b = 244 -> 143 [] OTHER -> 191
         IN  IF b < 128 THEN Utf8(data, i + 1, Append(out, b))
             ELSE IF b >= 194 /\ b <= 223 /\ IsCont(data, i + 1, 128, 191)
             THEN Utf8(data, i + 2,
                       Append(out, (b - 192) * 64 + (data[i + 1] - 128)))
             ELSE IF b >= 224 /\ b <= 239 /\ IsCont(data, i + 1, lo2, hi2)
                     /\ IsCont(data, i + 2, 128, 191)
             THEN Utf8(data, i + 3,
                       Append(out, (b - 224) * 4096 + (data[i + 1] - 128) * 64
                                   + (data[i + 2] - 128)))
             ELSE IF b >= 240 /\ b <= 244 /\ IsCont(data, i + 1, lo2, hi2)
                     /\ IsCont(data, i + 2, 128, 191)
                     /\ IsCont(data, i + 3, 128, 191)
             THEN Utf8(data, i + 4,
                       Append(out, (b - 240) * 262144
                                   + (data[i + 1] - 128) * 4096
                                   + (data[i + 2] - 128) * 64
                                   + (data[i + 3] - 128)))
             ELSE Raised("UnicodeDecodeError")

decode(data) == Utf8(data, 1, <<>>)

(***************************************************************************)
(* The input mappings: a querystring or form holds any of the keys below,  *)
(* each with a string value.                                               *)
(***************************************************************************)
Keys == {"SAMLRequest", "SigAlg", "Signature", "RelayState"}

SigAlgValues == {<<"A">>}
SignatureValues == {<<"A", "w", "=", "=">>, <<"A">>}
RelayStateValues == {<<"!">>}

\* a key is absent (<<>>) or present with one of its values (<<v>>)
Optional(values) == {<<>>} \cup {<<v>> : v \in values}

Mapping(items) ==
    [k \in {key \in Keys : items[key] # <<>>} |-> items[k][1]]

_fail(message) ==
    [ok |-> FALSE, exc |-> "RequestParserError", message |-> message]

MissingField(key) == _fail(<<"Dato mancante nella request", key>>)
DecodeFailure(key) == _fail(<<"Impossibile decodificare l'elemento", key>>)

\* self._querystring[key] / self._form[key], a KeyError turned into _fail
_extract(mapping, key) ==
    IF key \in DOMAIN mapping THEN Ok(mapping[key]) ELSE MissingField(key)

(***************************************************************************)
(* HTTPRedirectRequestParser                                               *)
(***************************************************************************)
Redirect_convert_saml_request(saml_request) ==
    LET raw == b64decode(saml_request)
        inflated == decompress(raw.val)
    IN  IF ~raw.ok THEN raw
        ELSE IF ~inflated.ok THEN inflated
        ELSE decode(inflated.val)

Redirect_decode_saml_request(saml_request) ==
    LET converted == Redirect_convert_saml_request(saml_request)
    IN  IF converted.ok THEN converted ELSE DecodeFailure("SAMLRequest")

Redirect_parse_saml_request(querystring) ==
    LET saml_request == _extract(querystring, "SAMLRequest")
    IN  IF ~saml_request.ok THEN saml_request
        ELSE Redirect_decode_saml_request(saml_request.val)

Redirect_parse_sig_alg(querystring) == _extract(querystring, "SigAlg")

Redirect_decode_signature(signature) ==
    LET raw == b64decode(signature)
    IN  IF raw.ok THEN raw ELSE DecodeFailure("Signature")

Redirect_parse_signature(querystring) ==
    LET signature == _extract(querystring, "Signature")
    IN  IF ~signature.ok THEN signature
        ELSE Redirect_decode_signature(signature.val)

\* parse() with the Signature read before the SigAlg
HTTPRedirectRequestParser_parse_reordered(querystring) ==
    LET saml_request == Redirect_parse_saml_request(querystring)
        sig_alg == Redirect_parse_sig_alg(querystring)
        signature == Redirect_parse_signature(querystring)
    IN  IF ~saml_request.ok THEN saml_request
        ELSE IF ~signature.ok THEN signature
        ELSE IF ~sig_alg.ok THEN sig_alg
        ELSE Ok([saml_request |-> saml_request.val,
                 sig_alg |-> sig_alg.val,
                 signature |-> signature.val])

HTTPRedirectRequestParser_parse(querystring) ==
    LET saml_request == Redirect_parse_saml_request(querystring)
        sig_alg == Redirect_parse_sig_alg(querystring)
        signature == Redirect_parse_signature(querystring)
    IN  IF ~saml_request.ok THEN saml_request
        ELSE IF ~sig_alg.ok THEN sig_alg
        ELSE IF ~signature.ok THEN signature
        ELSE Ok([saml_request |-> saml_request.val,
                 sig_alg |-> sig_alg.val,
                 signature |-> signature.val])

(***************************************************************************)
(* HTTPPostRequestParser                                                   *)
(***************************************************************************)
Post_convert_saml_request(saml_request) ==
    LET raw == b64decode(saml_request)
    IN  IF ~raw.ok THEN raw ELSE decode(raw.val)

Post_decode_saml_request(saml_request) ==
    LET converted == Post_convert_saml_request(saml_request)
    IN  IF converted.ok THEN converted ELSE DecodeFailure("SAMLRequest")

Post_parse_saml_request(form) ==
    LET saml_request == _extract(form, "SAMLRequest")
    IN  IF ~saml_request.ok THEN saml_request
        ELSE Post_decode_saml_request(saml_request.val)

HTTPPostRequestParser_parse(form) ==
    LET saml_request == Post_parse_saml_request(form)
    IN  IF ~saml_request.ok THEN saml_request
        ELSE Ok([saml_request |-> saml_request.val])

(***************************************************************************)
(* XML documents as lxml hands them to SAMLTree: an element has a          *)
(* namespace and a local name (etree.QName), an ordered attribute list     *)
(* (attrib.items()), a direct text (a string or None) and its child        *)
(* elements in document order (iterchildren()).                            *)
(***************************************************************************)
PyNone == [k |-> "None"]
Str(s) == [k |-> "str", s |-> s]
Element(e) == [k |-> "element", e |-> e]
Subtree(o) == [k |-> "SAMLTree", obj |-> o]

Elem(ns, local, attrib, text, children) ==
    [ns |-> ns, local |-> local, attrib |-> attrib, text |-> text,
     children |-> children]

\* etree.QName(element).localname
localname(e) == e.local

\* str.lower() on the names of the model
lower(s) ==
    CASE s = "Root" -> "root"
      [] s = "Child" -> "child"
      [] s = "Tag" -> "tag"
      [] s = "A" -> "a"
      [] OTHER -> s

\* setattr(self, name, value) on the instance dictionary of a SAMLTree
setattr(self, name, value) ==
    [n \in DOMAIN self \cup {name} |-> IF n = name THEN value ELSE self[n]]

Built(self) == [ok |-> TRUE, obj |-> self]

(***************************************************************************)
(* SAMLTree                                                                *)
(***************************************************************************)
_bind_tag(self) == setattr(self, "tag", Str(localname(self["_xml_doc"].e)))

RECURSIVE BindItems(_, _)
BindItems(self, items) ==
    IF items = <<>> THEN self
    ELSE BindItems(setattr(self, lower(items[1][1]), Str(items[1][2])),
                   Tail(items))

\* the items are read from self._xml_doc once, when the loop starts
_bind_attributes(self) == BindItems(self, self["_xml_doc"].e.attrib)

\* self._bind_text(): an instance attribute of that name hides the method,
\* and self._xml_doc may by now be an attribute value, which has no .text
_bind_text(self) ==
    IF "_bind_text" \in DOMAIN self THEN Raised("TypeError")
    ELSE IF self["_xml_doc"].k # "element" THEN Raised("AttributeError")
    ELSE Built(setattr(self, "text", self["_xml_doc"].e.text))

RECURSIVE SAMLTree(_)
RECURSIVE BindChildren(_, _)
BindChildren(self, children) ==
    IF children = <<>> THEN Built(self)
    ELSE LET child == children[1]
             child_name == lower(localname(child))
             subtree == SAMLTree(child)
         IN  IF ~subtree.ok THEN subtree
             ELSE BindChildren(setattr(self, child_name, Subtree(subtree.obj)),
                               Tail(children))

\* _bind_subtrees with a child skipped when its name is already bound
RECURSIVE BindChildrenOnce(_, _)
BindChildrenOnce(self, children) ==
    IF children = <<>> THEN Built(self)
    ELSE LET child == children[1]
             child_name == lower(localname(child))
             subtree == SAMLTree(child)
         IN  IF ~subtree.ok THEN subtree
             ELSE IF child_name \in DOMAIN self
             THEN BindChildrenOnce(self, Tail(children))
             ELSE BindChildrenOnce(
                     setattr(self, child_name, Subtree(subtree.obj)),
                     Tail(children))

_bind_subtrees_first_wins(self) ==
    IF "_bind_subtrees" \in DOMAIN self THEN Raised("TypeError")
    ELSE BindChildrenOnce(self, self["_xml_doc"].e.children)

\* the children are read from self._xml_doc once, when the loop starts
_bind_subtrees(self) ==
    IF "_bind_subtrees" \in DOMAIN self THEN Raised("TypeError")
    ELSE BindChildren(self, self["_xml_doc"].e.children)

SAMLTree(xml_doc) ==
    LET self0 == [n \in {"_xml_doc"} |-> Element(xml_doc)]
        self1 == _bind_tag(self0)
        self2 == _bind_attributes(self1)
        bound == _bind_text(self2)
    IN  IF ~bound.ok THEN bound ELSE _bind_subtrees(bound.obj)

(***************************************************************************)
(* objectify.fromstring on the texts a request carries.                    *)
(***************************************************************************)
ExampleText == "<Root a='1'><Child x='y'>hi</Child><Child x='z'>bye</Child></Root>"
MalformedText == "<Root a='1'><Child"

ExampleDoc ==
    Elem("", "Root", << <<"a", "1">> >>, PyNone,
         << Elem("", "Child", << <<"x", "y">> >>, Str("hi"), <<>>),
            Elem("", "Child", << <<"x", "z">> >>, Str("bye"), <<>>) >>)

XmlTexts == {ExampleText, MalformedText}

fromstring(text) ==
    IF text = ExampleText THEN [ok |-> TRUE, doc |-> ExampleDoc]
    ELSE Raised("XMLSyntaxError")

Requests == {[saml_request |-> t] : t \in XmlTexts}

NoResult == [kind |-> "none"]

(***************************************************************************)
(* HTTPRequestDeserializer                                                 *)
(***************************************************************************)
_handle_nonblocking_error(errors, error) == errors \o error.details

\* what _deserialize() returns or raises
_deserialize(req) ==
    LET xml_doc == fromstring(req.saml_request)
    IN  IF ~xml_doc.ok THEN [kind |-> xml_doc.exc]
        ELSE LET tree == SAMLTree(xml_doc.doc)
             IN  IF tree.ok THEN [kind |-> "SAMLTree", obj |-> tree.obj]
                 ELSE [kind |-> tree.exc]

NoPipeline ==
    /\ validators = <<>>
    /\ request = [i \in Instances |-> [saml_request |-> ExampleText]]
    /\ validation_errors = [i \in Instances |-> <<>>]
    /\ pc = [i \in Instances |-> "idle"]
    /\ idx = [i \in Instances |-> 0]
    /\ invoked = [i \in Instances |-> <<>>]
    /\ run_start = [i \in Instances |-> <<>>]
    /\ result = [i \in Instances |-> NoResult]
    /\ runs = 0

NoParser == binding = "none" /\ source = <<>> /\ parsed = NoResult

NoTree == document = NoResult /\ built = NoResult

\* __init__(request) on every instance, with the class's validator list
Init ==
    /\ validators \in ValidatorLists
    /\ request \in [Instances -> Requests]
    /\ validation_errors = [i \in Instances |-> <<>>]
    /\ pc = [i \in Instances |-> "idle"]
    /\ idx = [i \in Instances |-> 0]
    /\ invoked = [i \in Instances |-> <<>>]
    /\ run_start = [i \in Instances |-> <<>>]
    /\ result = [i \in Instances |-> NoResult]
    /\ runs = 0
    /\ NoParser
    /\ NoTree

\* deserialize() is called on instance i: _validate() starts the loop.
Deserialize(i) ==
    /\ pc[i] \in {"idle", "done"}
    /\ runs < MaxRuns
    /\ runs' = runs + 1
    /\ pc' = [pc EXCEPT ![i] = IF Len(validators) = 0 THEN "validated"
                                                       ELSE "validating"]
    /\ idx' = [idx EXCEPT ![i] = 1]
    /\ invoked' = [invoked EXCEPT ![i] = <<>>]
    /\ run_start' = [run_start EXCEPT ![i] = validation_errors[i]]
    /\ result' = [result EXCEPT ![i] = NoResult]
    /\ UNCHANGED <<validators, request, validation_errors, qvars, tvars>>

\* _run_validator with a blocking error handled like a non-blocking one
_run_validator_never_stops(errors, validator) ==
    IF validator.raises = "none" THEN [errors |-> errors, stop |-> FALSE]
    ELSE [errors |-> _handle_nonblocking_error(errors, validator),
          stop |-> FALSE]

\* _run_validator(validator): what validate(request) raises, and its handler
_run_validator(errors, validator) ==
    CASE validator.raises = "XMLFormatValidationError" ->
            [errors |-> _handle_nonblocking_error(errors, validator),
             stop |-> TRUE]
      [] validator.raises = "ValidationError" ->
            [errors |-> _handle_nonblocking_error(errors, validator),
             stop |-> FALSE]
      [] OTHER -> [errors |-> errors, stop |-> FALSE]

\* One iteration of the loop of _run_validators; StopValidation, or the end
\* of the list, ends _validate().
RunValidator(i) ==
    /\ pc[i] = "validating"
    /\ LET ran == _run_validator(validation_errors[i], validators[idx[i]])
       IN  /\ invoked' = [invoked EXCEPT ![i] = Append(@, idx[i])]
           /\ validation_errors' = [validation_errors EXCEPT ![i] = ran.errors]
           /\ idx' = [idx EXCEPT ![i] = @ + 1]
           /\ pc' = [pc EXCEPT ![i] =
                        IF ran.stop \/ idx[i] = Len(validators)
                        THEN "validated" ELSE "validating"]
    /\ UNCHANGED <<validators, request, run_start, result, runs, qvars, tvars>>

\* deserialize() without the check of self._validation_errors
deserialize_unchecked(errors, req) == _deserialize(req)

\* what deserialize() does once _validate() has returned
deserialize(errors, req) ==
    IF errors # <<>>
    THEN [kind |-> "DeserializationError", details |-> errors]
    ELSE _deserialize(req)

Finish(i) ==
    /\ pc[i] = "validated"
    /\ result' = [result EXCEPT ![i] =
                     deserialize(validation_errors[i], request[i])]
    /\ pc' = [pc EXCEPT ![i] = "done"]
    /\ UNCHANGED <<validators, request, validation_errors, idx, invoked,
                   run_start, runs, qvars, tvars>>

Next ==
    \E i \in Instances :
        \/ Deserialize(i)
        \/ RunValidator(i)
        \/ Finish(i)

Spec == Init /\ [][Next]_vars

(***************************************************************************)
(* The binding parsers applied to every input mapping of the model.        *)
(***************************************************************************)
InitParse ==
    /\ binding \in {"Redirect", "POST"}
    /\ \E sr \in Optional(Strings), sa \in Optional(SigAlgValues),
          sg \in Optional(SignatureValues), rs \in Optional(RelayStateValues) :
          source = Mapping([SAMLRequest |-> sr, SigAlg |-> sa,
                            Signature |-> sg, RelayState |-> rs])
    /\ parsed = NoResult
    /\ NoPipeline
    /\ NoTree

ParseRedirect ==
    /\ binding = "Redirect"
    /\ parsed = NoResult
    /\ parsed' = HTTPRedirectRequestParser_parse(source)
    /\ UNCHANGED <<binding, source, pvars, tvars>>

ParsePost ==
    /\ binding = "POST"
    /\ parsed = NoResult
    /\ parsed' = HTTPPostRequestParser_parse(source)
    /\ UNCHANGED <<binding, source, pvars, tvars>>

NextParse == ParseRedirect \/ ParsePost

SpecParse == InitParse /\ [][NextParse]_vars

(***************************************************************************)
(* SAMLTree applied to every document of the model.                        *)
(***************************************************************************)
AttrNames == {"a", "A", "Tag", "text", "child", "_xml_doc"}

AttrValue(name) == CASE name = "a" -> "1" [] name = "A" -> "2" [] OTHER -> "v"

\* attribute lists: distinct names (XML allows a name once per element)
AttrLists ==
    UNION {{[k \in 1..n |-> <<names[k], AttrValue(names[k])>>] :
               names \in {f \in [1..n -> AttrNames] :
                             \A j, k \in 1..n : j # k => f[j] # f[k]}} :
           n \in 0..MaxAttrs}

Leaf == Elem("", "Tag", << <<"x", "y">> >>, Str("hi"), <<>>)

ChildVariants ==
    {[attrib |-> << <<"x", "y">> >>, text |-> Str("hi")],
     [attrib |-> << <<"x", "z">> >>, text |-> Str("bye")],
     [attrib |-> <<>>, text |-> PyNone]}

ChildElems ==
    {Elem("", local, v.attrib, v.text, <<>>) :
        local \in {"Child", "child", "Tag"}, v \in ChildVariants}
    \cup {Elem("", "Child", <<>>, PyNone, <<Leaf>>)}

ChildLists == UNION {[1..n -> ChildElems] : n \in 0..MaxChildren}

InitTree ==
    /\ \E ns \in {"", "urn:oasis:names:tc:SAML:2.0:protocol"},
          attrib \in AttrLists,
          text \in {PyNone, Str("hi")},
          children \in ChildLists :
          document = Elem(ns, "Root", attrib, text, children)
    /\ built = NoResult
    /\ NoPipeline
    /\ NoParser

BuildTree ==
    /\ built = NoResult
    /\ built' = SAMLTree(document)
    /\ UNCHANGED <<document, pvars, qvars>>

NextTree == BuildTree

SpecTree == InitTree /\ [][NextTree]_vars

(***************************************************************************)
(* Helpers of the properties of the pipeline.                              *)
(***************************************************************************)
Ended(i) == pc[i] \in {"validated", "done"}

IsBlocking(v) == v.raises = "XMLFormatValidationError"
IsNonBlocking(v) == v.raises = "ValidationError"

Blocking == {k \in 1..Len(validators) : IsBlocking(validators[k])}

FirstBlocking == CHOOSE b \in Blocking : \A k \in Blocking : b <= k

\* the details raised by the validators at positions 1..n, in list order
RECURSIVE DetailsUpTo(_)
DetailsUpTo(n) ==
    IF n = 0 THEN <<>> ELSE DetailsUpTo(n - 1) \o validators[n].details

\* the details raised by the validators a run has invoked, in that order
RECURSIVE DetailsOf(_)
DetailsOf(positions) ==
    IF positions = <<>> THEN <<>>
    ELSE validators[positions[1]].details \o DetailsOf(Tail(positions))

InOrder(positions) == \A j \in 1..Len(positions) : positions[j] = j

\* C1: when the list holds a blocking validator, a run invokes the
\* validators in list order up to the first blocking one and none after it,
\* and what it has appended to the accumulator when the loop ends is the
\* details of the earlier non-blocking errors followed by the details of
\* the blocking error.
C1_BlockingErrorStopsPipeline ==
    \A i \in Instances :
        Blocking # {} =>
            /\ InOrder(invoked[i])
            /\ Len(invoked[i]) <= FirstBlocking
            /\ Ended(i) =>
                  /\ Len(invoked[i]) = FirstBlocking
                  /\ validation_errors[i] =
                        run_start[i] \o DetailsUpTo(FirstBlocking - 1)
                                     \o validators[FirstBlocking].details

\* the case of C1: [A non-blocking with 2 details, B blocking with 1 detail,
\* C non-blocking with details of its own]; the run has ended with 3
\* details and C was not invoked
C1_Witness ==
    \E i \in Instances :
        /\ pc[i] = "done"
        /\ Len(validators) = 3
        /\ IsNonBlocking(validators[1]) /\ Len(validators[1].details) = 2
        /\ IsBlocking(validators[2]) /\ Len(validators[2].details) = 1
        /\ IsNonBlocking(validators[3]) /\ Len(validators[3].details) = 2
        /\ invoked[i] = <<1, 2>>
        /\ result[i].kind = "DeserializationError"
        /\ Len(result[i].details) = 3

\* C2: when no validator of the list is blocking, a run of deserialize
\* invokes every validator once, in list order, and the DeserializationError
\* it raises carries exactly the details of the non-blocking errors in that
\* order.
C2_AllRunAndDetailsInOrder ==
    \A i \in Instances :
        (pc[i] = "done" /\ Blocking = {}) =>
            /\ invoked[i] = [k \in 1..Len(validators) |-> k]
            /\ result[i].kind = "DeserializationError" =>
                  result[i].details = DetailsUpTo(Len(validators))

\* C3 as stated: deserialize raises DeserializationError exactly when the
\* accumulator is non-empty, and otherwise returns the tree.
C3_FailsIffAccumulatedElseTree ==
    \A i \in Instances :
        pc[i] = "done" =>
            /\ result[i].kind = "DeserializationError"
                  <=> validation_errors[i] # <<>>
            /\ validation_errors[i] = <<>> => result[i].kind = "SAMLTree"

\* C3 amended: deserialize raises DeserializationError, carrying the
\* accumulator, exactly when the accumulator is non-empty; otherwise it
\* parses request.saml_request and returns the tree built from it, or
\* raises XMLSyntaxError when that text is not well-formed.  With an empty
\* validator list nothing is invoked and the tree builder is reached.
C3_FailsIffAccumulatedElseParses ==
    \A i \in Instances :
        pc[i] = "done" =>
            /\ result[i].kind = "DeserializationError"
                  <=> validation_errors[i] # <<>>
            /\ result[i].kind = "DeserializationError"
                  => result[i].details = validation_errors[i]
            /\ validation_errors[i] = <<>> =>
                  IF request[i].saml_request = MalformedText
                  THEN result[i].kind = "XMLSyntaxError"
                  ELSE /\ result[i].kind = "SAMLTree"
                       /\ result[i].obj["tag"] = Str("Root")
            /\ validators = <<>> =>
                  /\ invoked[i] = <<>>
                  /\ result[i].kind # "DeserializationError"

\* a run over an empty validator list has invoked nothing and returned the
\* tree built from request.saml_request
C3_Witness ==
    /\ validators = <<>>
    /\ \E i \in Instances :
          /\ pc[i] = "done"
          /\ invoked[i] = <<>>
          /\ validation_errors[i] = <<>>
          /\ request[i].saml_request = ExampleText
          /\ result[i].kind = "SAMLTree"

\* C9: a run in which some invoked validator raised an error, blocking or
\* not and whatever its details, does not reach the tree builder: it ends
\* with DeserializationError.
C9_NoTreeAfterAnyError ==
    \A i \in Instances :
        (pc[i] = "done"
            /\ \E j \in 1..Len(invoked[i]) :
                  validators[invoked[i][j]].raises # "none")
        => result[i].kind = "DeserializationError"

\* C10: the DeserializationError of a run carries exactly the details
\* raised by the validators invoked during that run.
C10_DetailsConfinedToRun ==
    \A i \in Instances :
        (pc[i] = "done" /\ result[i].kind = "DeserializationError")
        => result[i].details = DetailsOf(invoked[i])


(***************************************************************************)
(* Helpers of the properties of the parsers.                               *)
(***************************************************************************)
Mandated ==
    IF binding = "Redirect" THEN {"SAMLRequest", "SigAlg", "Signature"}
    ELSE {"SAMLRequest"}

Missing == Mandated \ DOMAIN source

\* RFC 4648: quads of alphabet characters, the last one closed by at most
\* two pads
IsAlphabet(c) == c \in {"A", "w"}

ValidBase64(s) ==
    /\ Len(s) % 4 = 0
    /\ \A j \in 1..Len(s) :
          \/ IsAlphabet(s[j])
          \/ /\ s[j] = "="
             /\ j >= Len(s) - 1
             /\ \A k \in j..Len(s) : s[k] = "="

\* C4 as stated: a mapping that lacks a mandated key makes parse fail with
\* the missing-field error naming a key it lacks, whatever the other keys
\* and their values.
C4_MissingKeyAlwaysNamed ==
    (parsed # NoResult /\ Missing # {})
    => parsed \in {MissingField(k) : k \in Missing}

\* C4 amended: the fields are extracted in the order SAMLRequest, SigAlg,
\* Signature and the first failure is raised.  A mapping without
\* SAMLRequest fails with the missing-field error naming SAMLRequest (both
\* parsers).  A Redirect mapping with SAMLRequest but without SigAlg or
\* Signature fails with the missing-field error naming the first of the two
\* it lacks when the SAMLRequest value decodes, and with the decode error
\* of SAMLRequest when it does not; the other keys and the Signature value
\* make no difference.
C4_FirstFailureIsRaised ==
    (parsed # NoResult /\ Missing # {}) =>
        IF "SAMLRequest" \in Missing
        THEN parsed = MissingField("SAMLRequest")
        ELSE IF ~Redirect_convert_saml_request(source["SAMLRequest"]).ok
        THEN parsed = DecodeFailure("SAMLRequest")
        ELSE IF "SigAlg" \in Missing
        THEN parsed = MissingField("SigAlg")
        ELSE parsed = MissingField("Signature")

\* a Redirect mapping whose SAMLRequest decodes, without SigAlg and with a
\* Signature that does not decode: the error names SigAlg
C4_Witness ==
    /\ binding = "Redirect"
    /\ DOMAIN source = {"SAMLRequest", "Signature", "RelayState"}
    /\ source["SAMLRequest"] = <<"A", "w", "A", "=">>
    /\ source["Signature"] = <<"A">>
    /\ parsed = MissingField("SigAlg")

\* C5: a SAMLRequest value that is not valid base64 makes both parsers fail
\* with the decode error naming SAMLRequest, and no request is returned.
C5_InvalidBase64IsDecodeError ==
    (parsed # NoResult /\ "SAMLRequest" \in DOMAIN source
        /\ ~ValidBase64(source["SAMLRequest"]))
    => parsed = DecodeFailure("SAMLRequest")

\* no string of the model needs a part of DEFLATE that decompress leaves out
InflateModelled ==
    \A k \in DOMAIN source \cap {"SAMLRequest"} :
        LET raw == b64decode(source[k])
        IN  raw.ok => LET inflated == decompress(raw.val)
                      IN  inflated.ok \/ inflated.exc = "zlib.error"


(***************************************************************************)
(* Helpers of the properties of the tree.                                  *)
(***************************************************************************)
ChildNames(e) == {lower(localname(e.children[j])) : j \in 1..Len(e.children)}

\* the last child of e, in document order, whose lower-cased local name is n
LastChild(e, n) ==
    LET last == CHOOSE j \in 1..Len(e.children) :
                    /\ lower(localname(e.children[j])) = n
                    /\ \A k \in (j + 1)..Len(e.children) :
                          lower(localname(e.children[k])) # n
    IN  e.children[last]

\* the node obj built for element e holds, under every child name, the
\* node built from the last child of that name, and so on below it
RECURSIVE LastWriteWins(_, _)
LastWriteWins(e, obj) ==
    \A n \in ChildNames(e) :
        /\ n \in DOMAIN obj
        /\ obj[n].k = "SAMLTree"
        /\ obj[n].obj["_xml_doc"] = Element(LastChild(e, n))
        /\ obj[n] = Subtree(SAMLTree(LastChild(e, n)).obj)
        /\ LastWriteWins(LastChild(e, n), obj[n].obj)

\* C6: in a tree SAMLTree has built, the entry of a child name is the node
\* built from the last sibling of that (lower-cased) name.
C6_LastSiblingWins == (built # NoResult /\ built.ok) => LastWriteWins(document, built.obj)

\* the document of C6: the tree has one child 'child' with x='z', text 'bye'
C6_Witness ==
    /\ document = ExampleDoc
    /\ built # NoResult /\ built.ok
    /\ built.obj["child"].obj["x"] = Str("z")
    /\ built.obj["child"].obj["text"] = Str("bye")
    /\ built.obj["a"] = Str("1")

\* the node obj built for element e, and every node below it, has the
\* element's local name as its tag
RECURSIVE TagIsLocalName(_, _)
TagIsLocalName(e, obj) ==
    /\ obj["tag"] = Str(localname(e))
    /\ \A n \in ChildNames(e) :
          obj[n].k = "SAMLTree" /\ TagIsLocalName(LastChild(e, n), obj[n].obj)

\* C7: every node SAMLTree builds has the local name of its element as tag,
\* whatever attributes and children the element has.
C7_TagIsLocalName == (built # NoResult /\ built.ok) => TagIsLocalName(document, built.obj)

\* C8: the node SAMLTree builds exposes every attribute of the element
\* under its lower-cased name with its value.
C8_AttributesExposed ==
    (built # NoResult /\ built.ok) =>
        \A j \in 1..Len(document.attrib) :
            /\ lower(document.attrib[j][1]) \in DOMAIN built.obj
            /\ built.obj[lower(document.attrib[j][1])] = Str(document.attrib[j][2])


=============================================================================
